---- MODULE Spec2Model ----
(***************************************************************************)
(* A model of implicit.hpp: the transfer functions, the model families,    *)
(* the learning-rate schedules, Imp_Experiment with its bound functions,   *)
(* Imp_OnlineOutput, and the functors Get_score_coeff and Implicit_fn.     *)
(*                                                                         *)
(* Numbers.  The code computes in double; the model computes exactly, on   *)
(* the numbers  q + l*ln(2)  with q and l rational (ln 2 is irrational, so *)
(* the pair (q, l) is unique).  exp is evaluated where its value is        *)
(* rational, at integer multiples of ln 2 (exp(k*ln 2) = 2^k), and log at  *)
(* the powers of two (log(2^k) = k*ln 2); the inputs the actions draw are  *)
(* restricted to those points.  Rounding and overflow of double are not    *)
(* modelled.                                                               *)
(***************************************************************************)
EXTENDS Integers, Sequences, FiniteSets, TLC

(***************************************************************************)
(* Bounds of the model.                                                    *)
(***************************************************************************)
\* longest vector handed to a deviance function
MaxLen == 2
\* largest |k| for which exp(k*ln 2) is evaluated
MaxExp == 4
\* largest dimension p of an experiment
MaxP == 2
\* largest iteration index t handed to learning_rate
MaxT == 3
\* largest number of observations of a dataset
MaxN == 2

(***************************************************************************)
(* Exact rationals <<n, d>>, d > 0, in lowest terms.                       *)
(***************************************************************************)
Abs(i) == IF i < 0 THEN -i ELSE i

RECURSIVE Gcd(_, _)
Gcd(a, b) == IF b = 0 THEN a ELSE Gcd(b, a % b)

Rat(n, d) ==
    LET s == IF d < 0 THEN -1 ELSE 1
        g == Gcd(Abs(n), Abs(d))
    IN  <<(s * n) \div g, (s * d) \div g>>

RInt(i) == <<i, 1>>
RAdd(a, b) == Rat(a[1] * b[2] + b[1] * a[2], a[2] * b[2])
RNeg(a) == <<-a[1], a[2]>>
RSub(a, b) == RAdd(a, RNeg(b))
RMul(a, b) == Rat(a[1] * b[1], a[2] * b[2])
RInv(a) == Rat(a[2], a[1])
RDiv(a, b) == RMul(a, RInv(b))
RLess(a, b) == a[1] * b[2] < b[1] * a[2]
RLeq(a, b) == a[1] * b[2] <= b[1] * a[2]
RAbs(a) == <<Abs(a[1]), a[2]>>
RIsInt(a) == a[2] = 1

RECURSIVE RPowNat(_, _)
RPowNat(a, k) == IF k = 0 THEN RInt(1) ELSE RMul(a, RPowNat(a, k - 1))

\* a^k for an integer k (a # 0 when k < 0)
RPow(a, k) == IF k >= 0 THEN RPowNat(a, k) ELSE RPowNat(RInv(a), -k)

\* 2^k = 2^e for some integer e, and that e
IsPow2(a) == \E e \in (-MaxExp)..MaxExp : a = RPow(RInt(2), e)
Log2(a) == CHOOSE e \in (-MaxExp)..MaxExp : a = RPow(RInt(2), e)

(***************************************************************************)
(* The numbers q + l*ln 2.                                                 *)
(***************************************************************************)
Num(q, l) == [q |-> q, l |-> l]
Q(q) == Num(q, RInt(0))
I(i) == Q(RInt(i))
Ln2(k) == Num(RInt(0), RInt(k))
Zero == I(0)
One == I(1)
IsQ(a) == a.l = RInt(0)

NAdd(a, b) == Num(RAdd(a.q, b.q), RAdd(a.l, b.l))
NNeg(a) == Num(RNeg(a.q), RNeg(a.l))
NSub(a, b) == NAdd(a, NNeg(b))
\* a product is in the number system when one factor is rational
NMulOK(a, b) == IsQ(a) \/ IsQ(b)
NMul(a, b) ==
    IF IsQ(a) THEN Num(RMul(a.q, b.q), RMul(a.q, b.l))
    ELSE Num(RMul(a.q, b.q), RMul(a.l, b.q))
NInv(a) == Q(RInv(a.q))
NDiv(a, b) == NMul(a, NInv(b))
\* order, on the rationals
NLess(a, b) == RLess(a.q, b.q)
NLeq(a, b) == RLeq(a.q, b.q)

\* exp(u), at u = k*ln 2
ExpOK(u) == u.q = RInt(0) /\ RIsInt(u.l) /\ Abs(u.l[1]) <= MaxExp
Exp(u) == Q(RPow(RInt(2), u.l[1]))
\* log(a), at a = 2^k
LogOK(a) == IsQ(a) /\ IsPow2(a.q)
Log(a) == Ln2(Log2(a.q))
\* pow(a, k) for an integer exponent
Pow(a, k) == Q(RPow(a.q, k))

(***************************************************************************)
(* Vectors are sequences of numbers.                                       *)
(***************************************************************************)
RECURSIVE Sum(_)
Sum(v) == IF v = <<>> THEN Zero ELSE NAdd(v[1], Sum(Tail(v)))

dot(a, b) == Sum([i \in 1..Len(a) |-> NMul(a[i], b[i])])

Vectors(S, len) == [1..len -> S]

(***************************************************************************)
(* Transfer functions (scalar forms).                                      *)
(***************************************************************************)
Identity_transfer(u) == u
Identity_first_derivative(u) == One
Identity_second_derivative(u) == Zero

Exp_transfer(u) == Exp(u)
Exp_first_derivative(u) == Exp(u)
Exp_second_derivative(u) == Exp(u)

sigmoid(u) == NDiv(One, NAdd(One, Exp(NNeg(u))))

Logistic_transfer(u) == sigmoid(u)

Logistic_first_derivative(u) ==
    LET sig == sigmoid(u) IN NMul(sig, NSub(One, sig))

Logistic_second_derivative(u) ==
    LET sig == sigmoid(u)
    IN  NAdd(NSub(NMul(I(2), Pow(sig, 3)), NMul(I(3), Pow(sig, 2))),
             NMul(I(2), sig))

(***************************************************************************)
(* Model families.                                                         *)
(***************************************************************************)
Gaussian_variance(u) == One
Poisson_variance(u) == u
Binomial_variance(u) == NMul(u, NSub(One, u))

\* sum(vec(wt % ((y-mu) % (y-mu))))
Gaussian_deviance(y, mu, wt) ==
    Sum([i \in 1..Len(y) |->
            NMul(wt[i], NMul(NSub(y[i], mu[i]), NSub(y[i], mu[i])))])

\* Poisson_r with r initialised to wt instead of mu % wt
Poisson_r_NoMu(y, mu, wt, i) ==
    IF NLess(Zero, y[i])
    THEN NMul(wt[i], NSub(NMul(y[i], Log(NDiv(y[i], mu[i]))),
                          NSub(y[i], mu[i])))
    ELSE wt[i]

\* r = mu % wt, overwritten where y(i) > 0; sum(2. * r)
Poisson_r(y, mu, wt, i) ==
    IF NLess(Zero, y[i])
    THEN NMul(wt[i], NSub(NMul(y[i], Log(NDiv(y[i], mu[i]))),
                          NSub(y[i], mu[i])))
    ELSE NMul(mu[i], wt[i])

Poisson_deviance(y, mu, wt) ==
    Sum([i \in 1..Len(mu) |-> NMul(I(2), Poisson_r(y, mu, wt, i))])

\* (y) ? (y * log(y/mu)) : 0.
y_log_y(y, mu) == IF y # Zero THEN NMul(y, Log(NDiv(y, mu))) ELSE Zero

Binomial_deviance(y, mu, wt) ==
    Sum([i \in 1..Len(y) |->
            NMul(NMul(I(2), wt[i]),
                 NAdd(y_log_y(y[i], mu[i]),
                      y_log_y(NSub(One, y[i]), NSub(One, mu[i]))))])

(***************************************************************************)
(* State.                                                                  *)
(***************************************************************************)
VARIABLES
    \* Imp_Experiment: the constructor's argument, the bound functions, p
    transfer_name, transfer_, transfer_first_deriv_, transfer_second_deriv_,
    lr_, p,
    \* the arguments of the last init_*_learning_rate call
    last_init,
    \* the schedules that have served a learning_rate call of the run
    served,
    \* Get_score_coeff and Implicit_fn: datapoint, theta_old, normx, at
    datapoint, theta_old, normx, at,
    \* Imp_OnlineOutput: the dataset's row count, the estimates matrix (a
    \* sequence of columns), the observations processed, the column the last
    \* processed observation wrote
    n_rows, estimates, processed, written,
    \* the last call: its name, arguments and result
    ret

expVars == <<transfer_name, transfer_, transfer_first_deriv_,
             transfer_second_deriv_, lr_, p, last_init, served>>
fnVars == <<datapoint, theta_old, normx, at>>
outVars == <<n_rows, estimates, processed, written>>
vars == <<expVars, fnVars, outVars, ret>>

NoCall == [op |-> "none"]
Unset == "unset"
NoSchedule == [kind |-> Unset]

\* the parts of the state a specification does not use
NoExperiment ==
    /\ transfer_name = "" /\ transfer_ = Unset
    /\ transfer_first_deriv_ = Unset /\ transfer_second_deriv_ = Unset
    /\ lr_ = NoSchedule /\ p = 0 /\ last_init = NoSchedule /\ served = {}
NoFunctor ==
    /\ datapoint = [x |-> <<>>, y |-> Zero] /\ theta_old = <<>>
    /\ normx = Zero /\ at = Zero
NoOutput ==
    /\ n_rows = 0 /\ estimates = <<>> /\ processed = 0 /\ written = <<>>

(***************************************************************************)
(* The static functions: inputs.                                           *)
(***************************************************************************)
Half == Q(Rat(1, 2))
Quarter == Q(Rat(1, 4))

\* arguments of a transfer function: rationals, and multiples of ln 2
RationalArgs == {I(-1), Zero, Half, I(2)}
Ln2Args == {Ln2(k) : k \in (-MaxExp)..MaxExp}

\* responses, means and weights of the deviance functions
Responses == {I(-1), Zero, Quarter, Half, One}
Means == {I(-1), Zero, Quarter, Half, One}
Weights == {One, I(3)}

\* the points where log(y/mu) is evaluated exactly
LogRatioOK(y, mu) == mu # Zero /\ LogOK(NDiv(y, mu))
PoissonPoint(y, mu) == NLess(Zero, y) => LogRatioOK(y, mu)
BinomialPoint(y, mu) ==
    /\ y # Zero => LogRatioOK(y, mu)
    /\ y # One => LogRatioOK(NSub(One, y), NSub(One, mu))

\* one observation handed to a deviance function: <<y, mu, wt>>
GaussianPoints == Responses \X Means \X Weights
PoissonPoints ==
    {o \in Responses \X Means \X Weights : PoissonPoint(o[1], o[2])}
BinomialPoints ==
    {o \in Responses \X Means \X Weights : BinomialPoint(o[1], o[2])}

Lens == 1..MaxLen
Column(obs, j) == [i \in 1..Len(obs) |-> obs[i][j]]

(***************************************************************************)
(* The static functions: one action per function.  A static function has   *)
(* no state: a run calls one of them once, from the state before any call. *)
(***************************************************************************)
TransferCall(name, u, val) ==
    /\ ret' = [op |-> name, u |-> u, val |-> val]
    /\ UNCHANGED <<expVars, fnVars, outVars>>

IdentityTransfer ==
    /\ ret = NoCall
    /\ \E u \in RationalArgs \cup Ln2Args :
        TransferCall("Identity.transfer", u, Identity_transfer(u))
IdentityFirst ==
    /\ ret = NoCall
    /\ \E u \in RationalArgs \cup Ln2Args :
        TransferCall("Identity.first_derivative", u,
                     Identity_first_derivative(u))
IdentitySecond ==
    /\ ret = NoCall
    /\ \E u \in RationalArgs \cup Ln2Args :
        TransferCall("Identity.second_derivative", u,
                     Identity_second_derivative(u))
ExpTransfer ==
    /\ ret = NoCall
    /\ \E u \in Ln2Args : TransferCall("Exp.transfer", u, Exp_transfer(u))
ExpFirst ==
    /\ ret = NoCall
    /\ \E u \in Ln2Args :
        TransferCall("Exp.first_derivative", u, Exp_first_derivative(u))
ExpSecond ==
    /\ ret = NoCall
    /\ \E u \in Ln2Args :
        TransferCall("Exp.second_derivative", u, Exp_second_derivative(u))
LogisticTransfer ==
    /\ ret = NoCall
    /\ \E u \in Ln2Args :
        TransferCall("Logistic.transfer", u, Logistic_transfer(u))
LogisticFirst ==
    /\ ret = NoCall
    /\ \E u \in Ln2Args :
        TransferCall("Logistic.first_derivative", u,
                     Logistic_first_derivative(u))
LogisticSecond ==
    /\ ret = NoCall
    /\ \E u \in Ln2Args :
        TransferCall("Logistic.second_derivative", u,
                     Logistic_second_derivative(u))

DevianceCall(name, y, mu, wt, val) ==
    /\ ret' = [op |-> name, y |-> y, mu |-> mu, wt |-> wt, val |-> val]
    /\ UNCHANGED <<expVars, fnVars, outVars>>

GaussianDeviance ==
    /\ ret = NoCall
    /\ \E len \in Lens : \E obs \in [1..len -> GaussianPoints] :
        LET y == Column(obs, 1)
            mu == Column(obs, 2)
            wt == Column(obs, 3)
        IN  DevianceCall("Gaussian.deviance", y, mu, wt,
                         Gaussian_deviance(y, mu, wt))
PoissonDeviance ==
    /\ ret = NoCall
    /\ \E len \in Lens : \E obs \in [1..len -> PoissonPoints] :
        LET y == Column(obs, 1)
            mu == Column(obs, 2)
            wt == Column(obs, 3)
        IN  DevianceCall("Poisson.deviance", y, mu, wt,
                         Poisson_deviance(y, mu, wt))
BinomialDeviance ==
    /\ ret = NoCall
    /\ \E len \in Lens : \E obs \in [1..len -> BinomialPoints] :
        LET y == Column(obs, 1)
            mu == Column(obs, 2)
            wt == Column(obs, 3)
        IN  DevianceCall("Binomial.deviance", y, mu, wt,
                         Binomial_deviance(y, mu, wt))

InitFn == NoExperiment /\ NoFunctor /\ NoOutput /\ ret = NoCall

NextFn ==
    \/ IdentityTransfer \/ IdentityFirst \/ IdentitySecond
    \/ ExpTransfer \/ ExpFirst \/ ExpSecond
    \/ LogisticTransfer \/ LogisticFirst \/ LogisticSecond
    \/ GaussianDeviance \/ PoissonDeviance \/ BinomialDeviance

SpecFn == InitFn /\ [][NextFn]_vars

(***************************************************************************)
(* Imp_Experiment.  A bound function is named by the static function it    *)
(* is bound to; an empty boost::function is Unset, and calling it throws   *)
(* boost::bad_function_call.                                               *)
(***************************************************************************)
Recognised == {"identity", "exp", "logistic"}
\* the names a caller passes: the recognised ones and one that is not
RootNames == Recognised \cup {"probit"}

\* the chain with a final else that binds the identity transfer
Bind_transfer_Default(name) ==
    IF name = "exp" THEN "Exp.transfer"
    ELSE IF name = "logistic" THEN "Logistic.transfer"
    ELSE "Identity.transfer"

\* the constructor's if / else-if chain: what the three members are bound to
Bind_transfer(name) ==
    IF name = "identity" THEN "Identity.transfer"
    ELSE IF name = "exp" THEN "Exp.transfer"
    ELSE IF name = "logistic" THEN "Logistic.transfer"
    ELSE Unset
Bind_first_deriv(name) ==
    IF name = "identity" THEN "Identity.first_derivative"
    ELSE IF name = "exp" THEN "Exp.first_derivative"
    ELSE IF name = "logistic" THEN "Logistic.first_derivative"
    ELSE Unset
Bind_second_deriv(name) ==
    IF name = "identity" THEN "Identity.second_derivative"
    ELSE IF name = "exp" THEN "Exp.second_derivative"
    ELSE IF name = "logistic" THEN "Logistic.second_derivative"
    ELSE Unset

\* the call f(u) of a bound function
Apply(f, u) ==
    CASE f = "Identity.transfer" -> Identity_transfer(u)
      [] f = "Identity.first_derivative" -> Identity_first_derivative(u)
      [] f = "Identity.second_derivative" -> Identity_second_derivative(u)
      [] f = "Exp.transfer" -> Exp_transfer(u)
      [] f = "Exp.first_derivative" -> Exp_first_derivative(u)
      [] f = "Exp.second_derivative" -> Exp_second_derivative(u)
      [] f = "Logistic.transfer" -> Logistic_transfer(u)
      [] f = "Logistic.first_derivative" -> Logistic_first_derivative(u)
      [] f = "Logistic.second_derivative" -> Logistic_second_derivative(u)

\* the functions that evaluate exp, and the arguments the model evaluates
UsesExp(f) == f \notin {Unset, "Identity.transfer",
                        "Identity.first_derivative",
                        "Identity.second_derivative"}
ArgOK(f, u) == IF UsesExp(f) THEN ExpOK(u) ELSE IsQ(u)

h_transfer(u) == Apply(transfer_, u)
h_first_derivative(u) == Apply(transfer_first_deriv_, u)
h_second_derivative(u) == Apply(transfer_second_deriv_, u)

\* ((datapoint.y - h_transfer(as_scalar(datapoint.x * theta_old)))
\*  * datapoint.x).t()
score_function(theta, dp) ==
    [i \in 1..Len(dp.x) |->
        NMul(NSub(dp.y, h_transfer(dot(dp.x, theta))), dp.x[i])]

\* the state after Imp_Experiment(transfer_name), with p set by the host
Constructed(names, dims) ==
    /\ transfer_name \in names
    /\ transfer_ = Bind_transfer(transfer_name)
    /\ transfer_first_deriv_ = Bind_first_deriv(transfer_name)
    /\ transfer_second_deriv_ = Bind_second_deriv(transfer_name)
    /\ lr_ = NoSchedule
    /\ last_init = NoSchedule
    /\ served = {}
    /\ p \in dims

(***************************************************************************)
(* Learning-rate schedules.  A matrix is a sequence of rows.               *)
(***************************************************************************)
Diag(pp, d) ==
    [i \in 1..pp |-> [j \in 1..pp |-> IF i = j THEN d[i] ELSE Zero]]

\* Unidim learning_rate with pow(..., c) for pow(..., -c)
Unidim_learning_rate_PlusC(th, dp, t, pp, gamma, alpha, c, scale) ==
    LET lr == NMul(NMul(scale, gamma),
                   Pow(NAdd(One, NMul(NMul(alpha, gamma), I(t))), c))
    IN  Diag(pp, [i \in 1..pp |-> lr])

\* lr = scale * gamma * pow(1 + alpha * gamma * t, -c); eye(p, p) * lr
Unidim_learning_rate(th, dp, t, pp, gamma, alpha, c, scale) ==
    LET lr == NMul(NMul(scale, gamma),
                   Pow(NAdd(One, NMul(NMul(alpha, gamma), I(t))), -c))
    IN  Diag(pp, [i \in 1..pp |-> lr])

\* the 1e-8 of the threshold test, as the denominator of 1/10^8
ThresholdDen == 100000000
\* abs(a) > 1e-8, for a rational a = n/d:  |n| * 10^8 > d
AboveThreshold(a) == Abs(a.q[1]) > a.q[2] \div ThresholdDen

\* Idiag without the identity matrix
Pxdim_Idiag_NoEye(th, dp, pp) ==
    LET Gi == score_function(th, dp)
    IN  Diag(pp, [i \in 1..pp |-> NMul(Gi[i], Gi[i])])

\* Idiag = eye(p, p) + diagmat(Gi * Gi.t())
Pxdim_Idiag(th, dp, pp) ==
    LET Gi == score_function(th, dp)
    IN  Diag(pp, [i \in 1..pp |-> NAdd(One, NMul(Gi[i], Gi[i]))])

\* Pxdim learning_rate without the inversion loop
Pxdim_learning_rate_NoInvert(th, dp, t, pp) == Pxdim_Idiag(th, dp, pp)

\* the loop: entries above the threshold are inverted in place
Pxdim_learning_rate(th, dp, t, pp) ==
    LET Idiag == Pxdim_Idiag(th, dp, pp)
    IN  [i \in 1..pp |-> [j \in 1..pp |->
            IF i = j /\ AboveThreshold(Idiag[i][i])
            THEN NDiv(One, Idiag[i][i])
            ELSE Idiag[i][j]]]

\* lr_(theta_old, data_pt, t, p), for a bound lr_
learning_rate(th, dp, t) ==
    CASE lr_.kind = "uni" ->
            Unidim_learning_rate(th, dp, t, p, lr_.gamma, lr_.alpha,
                                 lr_.c, lr_.scale)
      [] lr_.kind = "px" -> Pxdim_learning_rate(th, dp, t, p)

\* init_uni_dim_learning_rate leaving lr_ as it was
Bound_uni_Keep(gamma, alpha, c, scale) == lr_

\* what init_uni_dim_learning_rate binds lr_ to
Bound_uni(gamma, alpha, c, scale) ==
    [kind |-> "uni", gamma |-> gamma, alpha |-> alpha, c |-> c,
     scale |-> scale]
\* what init_px_dim_learning_rate binds lr_ to
Bound_px == [kind |-> "px"]

(***************************************************************************)
(* Imp_Experiment: one action per method.  The input sets are parameters:  *)
(* each specification draws from its own.                                  *)
(***************************************************************************)
init_uni_dim_learning_rate(Gammas, Alphas, Cs, Scales) ==
    \E gamma \in Gammas, alpha \in Alphas, c \in Cs, scale \in Scales :
        /\ lr_' = Bound_uni(gamma, alpha, c, scale)
        /\ last_init' = [kind |-> "uni", gamma |-> gamma, alpha |-> alpha,
                         c |-> c, scale |-> scale]
        /\ ret' = [op |-> "init_uni_dim_learning_rate"]
        /\ UNCHANGED <<transfer_name, transfer_, transfer_first_deriv_,
                       transfer_second_deriv_, p, served, fnVars, outVars>>

init_px_dim_learning_rate ==
    /\ lr_' = Bound_px
    /\ last_init' = [kind |-> "px"]
    /\ ret' = [op |-> "init_px_dim_learning_rate"]
    /\ UNCHANGED <<transfer_name, transfer_, transfer_first_deriv_,
                   transfer_second_deriv_, p, served, fnVars, outVars>>

\* the points the model evaluates a schedule at: exp at multiples of ln 2,
\* squares of rationals, pow at a nonzero base
ScheduleOK(th, dp, t) ==
    CASE lr_.kind = "uni" ->
            \/ lr_.c <= 0
            \/ NAdd(One, NMul(NMul(lr_.alpha, lr_.gamma), I(t))) # Zero
      [] lr_.kind = "px" -> ArgOK(transfer_, dot(dp.x, th))
      [] OTHER -> TRUE

\* lr_ empty: the call throws; the diagonal schedule calls score_function,
\* which throws when transfer_ is empty
LearningRateCall(Thetas, Points, Ts) ==
    \E th \in Thetas, dp \in Points, t \in Ts :
        /\ ScheduleOK(th, dp, t)
        /\ IF lr_.kind = Unset \/ (lr_.kind = "px" /\ transfer_ = Unset)
           THEN /\ ret' = [op |-> "learning_rate", theta |-> th, dp |-> dp,
                           t |-> t, status |-> "bad_function_call",
                           by |-> lr_, last_init |-> last_init]
                /\ served' = served
           ELSE /\ ret' = [op |-> "learning_rate", theta |-> th, dp |-> dp,
                           t |-> t, status |-> "ok",
                           val |-> learning_rate(th, dp, t),
                           by |-> lr_, last_init |-> last_init]
                /\ served' = served \cup {lr_}
        /\ UNCHANGED <<transfer_name, transfer_, transfer_first_deriv_,
                       transfer_second_deriv_, lr_, p, last_init, fnVars,
                       outVars>>

ScoreFunctionCall(Thetas, Points) ==
    \E th \in Thetas, dp \in Points :
        /\ ArgOK(transfer_, dot(dp.x, th))
        /\ ret' = IF transfer_ = Unset
                  THEN [op |-> "score_function", theta |-> th, dp |-> dp,
                        status |-> "bad_function_call"]
                  ELSE [op |-> "score_function", theta |-> th, dp |-> dp,
                        status |-> "ok", val |-> score_function(th, dp)]
        /\ UNCHANGED <<expVars, fnVars, outVars>>

BoundCall(name, f, u) ==
    /\ ArgOK(f, u)
    /\ ret' = IF f = Unset
              THEN [op |-> name, u |-> u, status |-> "bad_function_call"]
              ELSE [op |-> name, u |-> u, status |-> "ok",
                    val |-> Apply(f, u)]
    /\ UNCHANGED <<expVars, fnVars, outVars>>

HTransferCall(Us) == \E u \in Us : BoundCall("h_transfer", transfer_, u)
HFirstDerivativeCall(Us) ==
    \E u \in Us : BoundCall("h_first_derivative", transfer_first_deriv_, u)
HSecondDerivativeCall(Us) ==
    \E u \in Us : BoundCall("h_second_derivative", transfer_second_deriv_, u)

(***************************************************************************)
(* The uniform-rate schedule: a constructed experiment, the schedule bound *)
(* with any parameters, learning_rate called at any t.                     *)
(***************************************************************************)
UniGammas == {Q(Rat(-2, 3)), Zero, Half, One}
UniAlphas == {Zero, One, I(2)}
UniCs == {-1, 1, 2}
UniScales == {I(-1), Zero, Half, One}
Dims == 1..MaxP
Ts == 0..MaxT

ZeroVector == [i \in 1..p |-> Zero]
UniTheta == {ZeroVector}
UniPoints == {[x |-> ZeroVector, y |-> Zero]}

InitUni ==
    /\ Constructed({"identity"}, Dims)
    /\ NoFunctor /\ NoOutput /\ ret = NoCall

\* the schedule is bound once in a run
UniBind ==
    /\ lr_ = NoSchedule
    /\ init_uni_dim_learning_rate(UniGammas, UniAlphas, UniCs, UniScales)
UniRate == LearningRateCall(UniTheta, UniPoints, Ts)

NextUni == UniBind \/ UniRate

SpecUni == InitUni /\ [][NextUni]_vars

(***************************************************************************)
(* The diagonal-rate schedule: a constructed experiment, the schedule      *)
(* bound, learning_rate called at any theta_old and data point.            *)
(***************************************************************************)
PxThetaEntries == IF UsesExp(transfer_) THEN {Ln2(-1), Zero, Ln2(1)}
                  ELSE {I(-1), Zero, Half}
PxXEntries == {I(-1), Zero, I(2)}
PxY == {Zero, One, I(3)}
PxTheta == Vectors(PxThetaEntries, p)
PxPoints == {[x |-> x, y |-> y] : x \in Vectors(PxXEntries, p), y \in PxY}

InitPx ==
    /\ Constructed(RootNames, Dims)
    /\ NoFunctor /\ NoOutput /\ ret = NoCall

\* the schedule is bound once and learning_rate is called once in a run
PxBind == lr_ = NoSchedule /\ init_px_dim_learning_rate
PxRate ==
    /\ ret.op # "learning_rate"
    /\ LearningRateCall(PxTheta, PxPoints, {0})

NextPx == PxBind \/ PxRate

SpecPx == InitPx /\ [][NextPx]_vars

(***************************************************************************)
(* The life of one experiment: constructed with any name, a schedule bound *)
(* and bound again at any time, every method called in any order.          *)
(***************************************************************************)
LifeGammas == {Half}
LifeAlphas == {One}
LifeCs == {1}
LifeScales == {Half, One}
LifeTheta == {ZeroVector}
LifePoints == {[x |-> [i \in 1..p |-> One], y |-> One]}
LifeU == {Zero, One, Ln2(1)}

Init ==
    /\ Constructed(RootNames, Dims)
    /\ NoFunctor /\ NoOutput /\ ret = NoCall

InitUniDimLearningRate ==
    init_uni_dim_learning_rate(LifeGammas, LifeAlphas, LifeCs, LifeScales)
InitPxDimLearningRate == init_px_dim_learning_rate
LearningRate == LearningRateCall(LifeTheta, LifePoints, Ts)
ScoreFunction == ScoreFunctionCall(LifeTheta, LifePoints)
HTransfer == HTransferCall(LifeU)
HFirstDerivative == HFirstDerivativeCall(LifeU)
HSecondDerivative == HSecondDerivativeCall(LifeU)

Next ==
    \/ InitUniDimLearningRate \/ InitPxDimLearningRate
    \/ LearningRate \/ ScoreFunction
    \/ HTransfer \/ HFirstDerivative \/ HSecondDerivative

Spec == Init /\ [][Next]_vars

(***************************************************************************)
(* Imp_OnlineOutput.  estimates is the sequence of the matrix's columns.   *)
(* The streaming loop that fills it is the host's: for the k-th            *)
(* observation it writes the new estimate into column k.                   *)
(***************************************************************************)
\* mat(data.X.n_rows, data.X.n_cols): the arguments the other way round
OnlineOutput_shape_Swapped(X_n_rows, X_n_cols) ==
    [n_rows |-> X_n_rows, n_cols |-> X_n_cols]

\* estimates(mat(data.X.n_cols, data.X.n_rows))
OnlineOutput_shape(X_n_rows, X_n_cols) ==
    [n_rows |-> X_n_cols, n_cols |-> X_n_rows]

\* the entries of a column: what an estimate, or unwritten memory, holds
Entries == {Zero, One}

\* the matrices the constructor can leave: the shape is set, the entries
\* are not written
OnlineOutput_new(X_n_rows, X_n_cols) ==
    LET shape == OnlineOutput_shape(X_n_rows, X_n_cols)
    IN  [1..shape.n_cols -> Vectors(Entries, shape.n_rows)]

n_cols(m) == Len(m)

\* estimates.col(estimates.n_cols - 1)
last_estimate == estimates[n_cols(estimates)]

Ns == 0..MaxN

InitOut ==
    /\ Constructed({"identity"}, Dims)
    /\ NoFunctor
    /\ n_rows \in Ns
    /\ estimates \in OnlineOutput_new(n_rows, p)
    /\ processed = 0
    /\ written = <<>>
    /\ ret = NoCall

\* the host's loop, for the next observation
ProcessObservation ==
    /\ processed < n_rows
    /\ \E theta_new \in Vectors(Entries, p) :
        /\ estimates' = [estimates EXCEPT ![processed + 1] = theta_new]
        /\ written' = theta_new
    /\ processed' = processed + 1
    /\ UNCHANGED <<expVars, fnVars, n_rows, ret>>

\* with no column the index n_cols - 1 wraps around: the bounds check
\* throws, and a build without it reads p entries outside the matrix
LastEstimate ==
    /\ IF n_cols(estimates) = 0
       THEN \/ ret' = [op |-> "last_estimate", k |-> processed,
                       written |-> written, status |-> "out_of_bounds"]
            \/ \E garbage \in Vectors(Entries, p) :
                  ret' = [op |-> "last_estimate", k |-> processed,
                          written |-> written, status |-> "ok",
                          val |-> garbage]
       ELSE ret' = [op |-> "last_estimate", k |-> processed,
                    written |-> written, status |-> "ok",
                    val |-> last_estimate]
    /\ UNCHANGED <<expVars, fnVars, outVars>>

NextOut == ProcessObservation \/ LastEstimate

SpecOut == InitOut /\ [][NextOut]_vars

(***************************************************************************)
(* Get_score_coeff and Implicit_fn, over the members datapoint, theta_old, *)
(* normx and at.                                                           *)
(***************************************************************************)
Get_score_coeff_arg(ksi) ==
    NAdd(dot(theta_old, datapoint.x), NMul(normx, ksi))

Get_score_coeff_call(ksi) ==
    NSub(datapoint.y, h_transfer(Get_score_coeff_arg(ksi)))

Get_score_coeff_first_derivative(ksi) ==
    NMul(h_first_derivative(Get_score_coeff_arg(ksi)), normx)

Get_score_coeff_second_derivative(ksi) ==
    NMul(NMul(h_second_derivative(Get_score_coeff_arg(ksi)), normx), normx)

\* value = u - at * g(u) with the sign of at * g(u) flipped
Implicit_fn_value_Plus(u) == NAdd(u, NMul(at, Get_score_coeff_call(u)))

Implicit_fn_value(u) == NSub(u, NMul(at, Get_score_coeff_call(u)))
Implicit_fn_first(u) ==
    NAdd(One, NMul(at, Get_score_coeff_first_derivative(u)))
Implicit_fn_second(u) == NMul(at, Get_score_coeff_second_derivative(u))

Implicit_fn_call(u) ==
    [value |-> Implicit_fn_value(u),
     first |-> Implicit_fn_first(u),
     second |-> Implicit_fn_second(u)]

(***************************************************************************)
(* The root-finding functors: inputs.                                      *)
(***************************************************************************)
Vec2(a, b) == <<a, b>>

\* design vectors; the Euclidean norm of the first four is an integer
RootX == {Vec2(Zero, Zero), Vec2(One, Zero), Vec2(Zero, I(2)),
          Vec2(I(3), I(4)), Vec2(One, One), Vec2(One, I(2))}

SqNorm(x) == dot(x, x)
HasNorm(x) == \E k \in 0..5 : I(k * k) = SqNorm(x)
Norm(x) == I(CHOOSE k \in 0..5 : I(k * k) = SqNorm(x))

\* what a caller passes as normx: the squared norm, or the norm
NormxOf(x) == {SqNorm(x)} \cup (IF HasNorm(x) THEN {Norm(x)} ELSE {})

RootTheta(f) ==
    IF UsesExp(f)
    THEN {Vec2(Zero, Zero), Vec2(Ln2(1), Zero), Vec2(Ln2(-1), Ln2(1))}
    ELSE {Vec2(Zero, Zero), Vec2(One, I(-1)), Vec2(Half, Zero)}
RootY == {Zero, One, I(3)}
RootAt == {Zero, Q(Rat(1, 10)), One}
RootU(f) ==
    IF UsesExp(f)
    THEN {Ln2(-1), Zero, Ln2(1)}
    ELSE {I(-1), Zero, Q(Rat(3, 35)), Q(Rat(1, 5)), Half, One}

(***************************************************************************)
(* The root-finding functors: a run builds an experiment, a data point, a  *)
(* Get_score_coeff and an Implicit_fn, and calls one functor once.         *)
(***************************************************************************)
InitRoot ==
    /\ Constructed(RootNames, {2})
    /\ \E x \in RootX : \E y \in RootY : datapoint = [x |-> x, y |-> y]
    /\ theta_old \in RootTheta(transfer_)
    /\ normx \in NormxOf(datapoint.x)
    /\ at \in RootAt
    /\ NoOutput
    /\ ret = NoCall

FunctorCall(name, f, u, val) ==
    /\ ret' = IF f = Unset
              THEN [op |-> name, u |-> u, status |-> "bad_function_call"]
              ELSE [op |-> name, u |-> u, status |-> "ok", val |-> val]
    /\ UNCHANGED <<expVars, fnVars, outVars>>

GetScoreCoeffCall ==
    /\ ret = NoCall
    /\ \E u \in RootU(transfer_) :
        /\ ArgOK(transfer_, Get_score_coeff_arg(u))
        /\ FunctorCall("Get_score_coeff", transfer_, u,
                       Get_score_coeff_call(u))
GetScoreCoeffFirst ==
    /\ ret = NoCall
    /\ \E u \in RootU(transfer_) :
        /\ ArgOK(transfer_, Get_score_coeff_arg(u))
        /\ FunctorCall("Get_score_coeff.first_derivative",
                       transfer_first_deriv_, u,
                       Get_score_coeff_first_derivative(u))
GetScoreCoeffSecond ==
    /\ ret = NoCall
    /\ \E u \in RootU(transfer_) :
        /\ ArgOK(transfer_, Get_score_coeff_arg(u))
        /\ FunctorCall("Get_score_coeff.second_derivative",
                       transfer_second_deriv_, u,
                       Get_score_coeff_second_derivative(u))
\* g(u) is evaluated first: an unset transfer_ throws there
ImplicitFnCall ==
    /\ ret = NoCall
    /\ \E u \in RootU(transfer_) :
        /\ ArgOK(transfer_, Get_score_coeff_arg(u))
        /\ FunctorCall("Implicit_fn", transfer_, u, Implicit_fn_call(u))

NextRoot ==
    \/ GetScoreCoeffCall \/ GetScoreCoeffFirst \/ GetScoreCoeffSecond
    \/ ImplicitFnCall

SpecRoot == InitRoot /\ [][NextRoot]_vars

(***************************************************************************)
(* Claims about the static functions, under SpecFn.                        *)
(***************************************************************************)
IsDeviance == ret.op \in {"Gaussian.deviance", "Poisson.deviance",
                          "Binomial.deviance"}
PerfectFit == IsDeviance /\ ret.mu = ret.y
InUnitInterval(y) == NLess(Zero, y) /\ NLess(y, One)

C6_SecondIsDerivativeOfFirst ==
    ret.op = "Logistic.second_derivative" =>
        LET s == Logistic_transfer(ret.u)
        IN  /\ ret.val = NAdd(NSub(NMul(I(2), NMul(s, NMul(s, s))),
                                   NMul(I(3), NMul(s, s))),
                              NMul(I(2), s))
            /\ ret.val = NMul(Logistic_first_derivative(ret.u),
                              NSub(One, NMul(I(2), s)))

(***************************************************************************)
(* Claims about the root-finding functors, under SpecRoot.                 *)
(***************************************************************************)
\* the transfer function a recognised name stands for, and its first and
\* second derivatives, from calculus
MathSigmoid(v) == NDiv(One, NAdd(One, Exp(NNeg(v))))
MathTransfer(name, v) ==
    CASE name = "identity" -> v
      [] name = "exp" -> Exp(v)
      [] name = "logistic" -> MathSigmoid(v)
MathDerivative(name, v) ==
    CASE name = "identity" -> One
      [] name = "exp" -> Exp(v)
      [] name = "logistic" ->
            NMul(MathSigmoid(v), NSub(One, MathSigmoid(v)))
MathSecondDerivative(name, v) ==
    CASE name = "identity" -> Zero
      [] name = "exp" -> Exp(v)
      [] name = "logistic" ->
            NMul(NMul(MathSigmoid(v), NSub(One, MathSigmoid(v))),
                 NSub(One, NMul(I(2), MathSigmoid(v))))

ImplicitFnReturned == ret.op = "Implicit_fn" /\ ret.status = "ok"

\* C1: for every bound transfer h, Implicit_fn::operator()(u) returns
\* value = u - at*(y - h(v)), first = d value/du = 1 + at*h'(v)*normx and
\* second = d first/du = at*h''(v)*normx^2, at v = theta_old.x + normx*u.
C1_ImplicitFnTriple ==
    ImplicitFnReturned =>
        LET v == NAdd(dot(theta_old, datapoint.x), NMul(normx, ret.u))
            h == MathTransfer(transfer_name, v)
            h1 == MathDerivative(transfer_name, v)
            h2 == MathSecondDerivative(transfer_name, v)
        IN  /\ ret.val.value = NSub(ret.u, NMul(at, NSub(datapoint.y, h)))
            /\ ret.val.first = NAdd(One, NMul(NMul(at, h1), normx))
            /\ ret.val.second = NMul(NMul(NMul(at, h2), normx), normx)

IdentityRootCall == ImplicitFnReturned /\ transfer_name = "identity"
Residual == NSub(datapoint.y, dot(theta_old, datapoint.x))

\* C2 as stated: with the Identity transfer and normx the norm of x, the
\* value component is zero exactly at a*(y - theta.x)/(1 + a*||x||^2).
C2_RootAtClosedForm ==
    (IdentityRootCall /\ HasNorm(datapoint.x) /\ normx = Norm(datapoint.x))
    => (ret.val.value = Zero
        <=> ret.u = NDiv(NMul(at, Residual),
                         NAdd(One, NMul(at, SqNorm(datapoint.x)))))

\* C2 amended: with the Identity transfer, a >= 0 and normx >= 0, the value
\* component is zero exactly at a*(y - theta.x)/(1 + a*normx), normx being
\* the number handed to Get_score_coeff.
C2_RootAtNormxForm ==
    IdentityRootCall
    => (ret.val.value = Zero
        <=> ret.u = NDiv(NMul(at, Residual), NAdd(One, NMul(at, normx))))

\* the spec's example: theta = [0,0], x = [1,2], y = 3, a = 0.1, normx = 5,
\* queried at its root 0.2
C2_Witness ==
    /\ IdentityRootCall
    /\ theta_old = Vec2(Zero, Zero) /\ datapoint.x = Vec2(One, I(2))
    /\ datapoint.y = I(3) /\ at = Q(Rat(1, 10)) /\ normx = I(5)
    /\ ret.u = Q(Rat(1, 5)) /\ ret.val.value = Zero

(***************************************************************************)
(* Claims about the uniform-rate schedule, under SpecUni.                  *)
(***************************************************************************)
RateReturned == ret.op = "learning_rate" /\ ret.status = "ok"
UniReturned == RateReturned /\ lr_.kind = "uni"

OffDiagonalZero(m) ==
    \A i \in 1..Len(m) : \A j \in 1..Len(m) : i # j => m[i][j] = Zero
MatLeq(a, b) ==
    \A i \in 1..Len(a) : \A j \in 1..Len(a) : NLeq(a[i][j], b[i][j])

\* the rate at t = 0 is scale*gamma*I_p, and every rate is diagonal
UniAtZero ==
    UniReturned =>
        /\ Len(ret.val) = p
        /\ OffDiagonalZero(ret.val)
        /\ ret.t = 0 =>
              \A i \in 1..p : ret.val[i][i] = NMul(lr_.scale, lr_.gamma)

\* a call at t followed by a call at t + 1 under the same schedule
UniNextT == UniReturned /\ UniReturned' /\ lr_' = lr_ /\ ret'.t = ret.t + 1

\* C3 as stated: for alpha > 0 and c > 0 (any gamma, scale, p) the rate at
\* t = 0 is scale*gamma*I_p, off-diagonal entries are zero, and the rate at
\* t + 1 is <= the rate at t.
C3_UniNonIncreasing ==
    /\ []UniAtZero
    /\ [][(UniNextT /\ NLess(Zero, lr_.alpha) /\ lr_.c > 0)
          => MatLeq(ret'.val, ret.val)]_vars

\* C3 amended: the same, for alpha > 0, c > 0, gamma >= 0 and scale >= 0.
C3_UniNonIncreasingNonNegative ==
    /\ []UniAtZero
    /\ [][(/\ UniNextT /\ NLess(Zero, lr_.alpha) /\ lr_.c > 0
           /\ NLeq(Zero, lr_.gamma) /\ NLeq(Zero, lr_.scale))
          => MatLeq(ret'.val, ret.val)]_vars

\* a rate that has strictly decreased: gamma, scale > 0, called at t >= 1
C3_Witness ==
    /\ UniReturned /\ ret.t >= 1
    /\ NLess(Zero, lr_.alpha) /\ lr_.c > 0
    /\ NLess(Zero, lr_.gamma) /\ NLess(Zero, lr_.scale)
    /\ NLess(ret.val[1][1], NMul(lr_.scale, lr_.gamma))

(***************************************************************************)
(* Claims about the diagonal-rate schedule, under SpecPx.                  *)
(***************************************************************************)
PxReturned == RateReturned /\ lr_.kind = "px"
Square(a) == NMul(a, a)
\* G = score_function(theta_old, data_point) of the call
CallScore == score_function(ret.theta, ret.dp)
Below(a) == ~AboveThreshold(a)

\* C4: the matrix returned is p by p and diagonal, and with
\* d_i = 1 + G_i^2 its i-th diagonal entry is 1/d_i when |d_i| > 1e-8 and
\* d_i when |d_i| <= 1e-8.
C4_PxDiagonalReciprocal ==
    PxReturned =>
        /\ Len(ret.val) = p
        /\ \A i \in 1..p : Len(ret.val[i]) = p
        /\ OffDiagonalZero(ret.val)
        /\ \A i \in 1..p :
              LET d == NAdd(One, Square(CallScore[i]))
              IN  /\ AboveThreshold(d) => ret.val[i][i] = NDiv(One, d)
                  /\ Below(d) => ret.val[i][i] = d

\* a call in dimension 2 with a nonzero score component
C4_Witness ==
    /\ PxReturned /\ p = 2
    /\ \E i \in 1..p : CallScore[i] # Zero /\ ret.val[i][i] # One

TransferBound ==
    /\ transfer_ # Unset
    /\ transfer_first_deriv_ # Unset
    /\ transfer_second_deriv_ # Unset
TransferUnset ==
    /\ transfer_ = Unset
    /\ transfer_first_deriv_ = Unset
    /\ transfer_second_deriv_ = Unset
ThroughTransfer ==
    ret.op \in {"h_transfer", "h_first_derivative", "h_second_derivative",
                "score_function"}

\* C8: with a name other than "identity", "exp", "logistic" the constructed
\* experiment has its three bindings unset, and a call of h_transfer,
\* h_first_derivative, h_second_derivative or score_function ends in a call
\* through an empty binding; with a recognised name the three bindings are
\* set and no such call faults.
C8_UnsetBindingFaultsOnCall ==
    /\ transfer_name \notin Recognised => TransferUnset
    /\ transfer_name \in Recognised => TransferBound
    /\ ThroughTransfer =>
          (ret.status = "bad_function_call"
           <=> transfer_name \notin Recognised)

\* h_transfer called on an experiment built with an unrecognised name
C8_Witness ==
    /\ transfer_name \notin Recognised
    /\ ret.op = "h_transfer" /\ ret.status = "bad_function_call"

LastEstimateCalled == ret.op = "last_estimate"

====
